---- MODULE Spec2Model ----
(***************************************************************************)
(* State-machine model of the Sudoku solver in src/sudoku-values.cpp:      *)
(* the bit-set cell domain, the row / column / square index tables, the    *)
(* action log, the three deduction techniques, propagate() and the         *)
(* depth-first search loop of main().                                      *)
(*                                                                         *)
(* A set (uint16_t bits, mask 0x3ff) is modelled as the set of its set bit *)
(* numbers, a subset of 0..9.  Bit 0 is the "open" marker, bits 1..9 are   *)
(* the candidate digits.  A map is a function 0..80 -> SUBSET 0..9.        *)
(* Characters are modelled by their codes ('0' = 48).                      *)
(***************************************************************************)
EXTENDS Integers, Sequences, FiniteSets

(***************************************************************************)
(* Bounds of the checked input family.                                     *)
(***************************************************************************)
\* cells 0..MaxMutPos of a base line are the ones an input may overwrite
MaxMutPos == 2

(***************************************************************************)
(* struct digit / struct set                                               *)
(***************************************************************************)
Char0 == 48

Bits == 0 .. 9

\* set::mask = 0x3ff: the ten bits 0..9
mask == Bits

\* digit::valid(char)
DigitValidChar(c) == c >= Char0 /\ c <= Char0 + 9

\* digit::from(char): the bit number of a digit character
DigitFromChar(c) == c - Char0

\* digit::to_char(): bit + '0', as a char (8 bits)
ToChar(bit) == (bit + Char0) % 256

\* set::test
Test(bits, bit) == bit \in bits

\* set::from(bitnum_t)
SetFrom(bit) == {bit}

\* set::from_not(bitnum_t): ~(1 << bit) & mask
SetFromNot(bit) == mask \ {bit}

\* set::operator~ : ~bits & mask
Complement(bits) == mask \ bits

SetMax(S) == CHOOSE x \in S : \A y \in S : y <= x

SetMin(S) == CHOOSE x \in S : \A y \in S : x <= y

\* set::front(): countr_zero(bits); 16 for the empty uint16_t
Front(bits) == IF bits = {} THEN 16 ELSE SetMin(bits)

\* set::back(): bit_width(bits) - 1 as a uint8_t; 255 for the empty set
Back(bits) == IF bits = {} THEN 255 ELSE SetMax(bits)

\* set::size(): popcount
Size(bits) == Cardinality(bits)

\* set::iter::find(digits, bit): bit + countr_zero(uint16_t(digits >> bit))
IterFind(digits, bit) ==
  LET rest == {b \in digits : b >= bit}
  IN  IF rest = {} THEN bit + 16 ELSE SetMin(rest)

\* set::begin(): iter{digits}.bit = find(digits)
IterBegin(digits) == IterFind(digits, 0)

\* set::iter::operator++ : bit = find(digits, ++bit)
IterNext(digits, bit) == IterFind(digits, bit + 1)

\* operator==(iter, iter_sent): the iterator is past the last bit
IterAtEnd(bit) == bit > 9

\* operator| and operator& on sets
SetOr(a, b) == a \cup b

SetAnd(a, b) == a \cap b

cell_fixed_mask == SetFrom(0)

cell_initial == Complement({})

\* fixed: the cell does not contain bit 0
fixed(cell) == ~Test(cell, 0)

possibilities(cell) ==
  IF fixed(cell) THEN 0 ELSE Size(SetAnd(cell, Complement(cell_fixed_mask)))

singleton(cell) == possibilities(cell) = 1

(***************************************************************************)
(* Index tables: rows, columns, squares, constraints_per_raw_index         *)
(***************************************************************************)
NumCells == 81

RawIndices == 0 .. (NumCells - 1)

Coords == 0 .. 8

\* raw_index::from(index): x + 9 * y
RawFrom(x, y) == x + (9 * y)

\* index::from(raw_index)
IndexX(idx) == idx % 9

IndexY(idx) == idx \div 9

rows == [row \in Coords |-> [pos \in Coords |-> RawFrom(pos, row)]]

columns == [column \in Coords |-> [pos \in Coords |-> RawFrom(column, pos)]]

square_starters ==
  [square \in Coords |-> [x |-> 3 * (square % 3), y |-> 3 * (square \div 3)]]

squares ==
  [square \in Coords |->
     [pos \in Coords |->
        RawFrom(square_starters[square].x + (pos % 3),
                square_starters[square].y + (pos \div 3))]]

\* square_idx(index): (starter.x / 3) + 3 * (starter.y / 3)
square_idx(idx) ==
  ((3 * (IndexX(idx) \div 3)) \div 3) + (3 * ((3 * (IndexY(idx) \div 3)) \div 3))

\* indices_sets = { rows, squares, columns }, joined: 27 groups in that order
all_indices_sets ==
  [g \in 0 .. 26 |->
     IF g < 9 THEN rows[g]
     ELSE IF g < 18 THEN squares[g - 9]
     ELSE columns[g - 18]]

GroupIds == 0 .. 26

\* std::ranges::sort followed by std::ranges::unique: the distinct values in
\* ascending order
RECURSIVE SortUnique(_)
SortUnique(S) ==
  IF S = {} THEN << >>
  ELSE << SetMin(S) >> \o SortUnique(S \ {SetMin(S)})

\* the mutant of concat(row, col, sqr) that leaves the square out
ConcatRowColOnly(idx) ==
  [k \in 0 .. 26 |->
     IF k < 9 THEN rows[IndexY(idx)][k]
     ELSE IF k < 18 THEN columns[IndexX(idx)][k - 9]
     ELSE rows[IndexY(idx)][k - 18]]

\* the 27 entries of concat(row, col, sqr) for a cell
ConcatRowColSqr(idx) ==
  [k \in 0 .. 26 |->
     IF k < 9 THEN rows[IndexY(idx)][k]
     ELSE IF k < 18 THEN columns[IndexX(idx)][k - 9]
     ELSE squares[square_idx(idx)][k - 18]]

\* the mutant of gen_constraints_indices that leaves the cell itself out
GenConstraintsNoSelf(idx) ==
  SortUnique({ConcatRowColSqr(idx)[k] : k \in 0 .. 26} \ {idx})

\* gen_constraints_indices: row, column and square of idx concatenated,
\* sorted, made unique; the array returned holds the distinct entries (the
\* code asserts that there are 21).  Entry i of the C++ array is entry i + 1
\* of the sequence.
gen_constraints_indices(idx) ==
  SortUnique({ConcatRowColSqr(idx)[k] : k \in 0 .. 26})

constraints_per_raw_index == [i \in RawIndices |-> gen_constraints_indices(i)]

(***************************************************************************)
(* struct map                                                              *)
(***************************************************************************)
\* map{}: every cell is cell_initial
InitialMap == [i \in RawIndices |-> cell_initial]

\* operator&(map, map): cell-wise meet
MapAnd(a, b) == [i \in RawIndices |-> SetAnd(a[i], b[i])]

\* the mutant of valid(set) that takes every committed cell for valid
ValidCellFixedOk(cell) ==
  IF fixed(cell) THEN TRUE ELSE SetAnd(cell, Complement(cell_fixed_mask)) # {}

\* valid(set): some bit other than bit 0 is set
ValidCell(cell) == SetAnd(cell, Complement(cell_fixed_mask)) # {}

\* the mutant of valid(map) that looks at the open cells only
ValidOpenCells(s) ==
  \A i \in RawIndices : IF fixed(s[i]) THEN TRUE ELSE ValidCell(s[i])

\* valid(map)
valid(s) == \A i \in RawIndices : ValidCell(s[i])

(***************************************************************************)
(* struct actions: the pending mask and the count of primitive operations  *)
(***************************************************************************)
NewActions == [actions_map |-> InitialMap, count |-> 0]

\* the mutant of expand(fix) that meets the mask instead of assigning it
ExpandFixMeet(acts, idx, dig) ==
  [actions_map |->
     [acts.actions_map EXCEPT ![idx] = SetAnd(@, SetFrom(dig))],
   count |-> acts.count + 1]

\* expand(fix): actions_map[idx] = set::from(dig)
ExpandFix(acts, idx, dig) ==
  [actions_map |-> [acts.actions_map EXCEPT ![idx] = SetFrom(dig)],
   count |-> acts.count + 1]

\* expand(disable): actions_map[idx] &= set::from_not(dig)
ExpandDisable(acts, idx, dig) ==
  [actions_map |->
     [acts.actions_map EXCEPT ![idx] = SetAnd(@, SetFromNot(dig))],
   count |-> acts.count + 1]

\* the for loop of expand(put) from entry k of the constraint array on
RECURSIVE DisableEach(_, _, _, _)
DisableEach(acts, cons, k, dig) ==
  IF k > Len(cons) THEN acts
  ELSE DisableEach(ExpandDisable(acts, cons[k], dig), cons, k + 1, dig)

\* the mutant of expand(put) that fixes the cell and leaves its peers alone
ExpandPutFixOnly(acts, idx, dig) == ExpandFix(acts, idx, dig)

\* expand(put): disable dig in every entry of constraints_per_raw_index[idx],
\* then fix idx to dig
ExpandPut(acts, idx, dig) ==
  ExpandFix(DisableEach(acts, constraints_per_raw_index[idx], 1, dig), idx, dig)

\* the mutant of apply that toggles the bits of the mask instead of meeting
ApplyToggle(acts, s) ==
  [i \in RawIndices |->
     (s[i] \ acts.actions_map[i]) \cup (acts.actions_map[i] \ s[i])]

\* actions::apply: s = s & actions_map
Apply(acts, s) == MapAnd(s, acts.actions_map)

\* One operation handed to expand(): the record the callers build with
\* acts.on(idx).put(d) / .disable(d).
PutOp(idx, dig) == [kind |-> "put", idx |-> idx, dig |-> dig]

DisableOp(idx, dig) == [kind |-> "disable", idx |-> idx, dig |-> dig]

\* one operation expanded into acts
ExpandOp(acts, op) ==
  IF op.kind = "put"
    THEN ExpandPut(acts, op.idx, op.dig)
    ELSE ExpandDisable(acts, op.idx, op.dig)

\* the operations ops[lo..hi] expanded into acts, in order: the first half
\* of the range, then the second half on its result.  Every operation adds
\* to count, so the test on it always holds; it only makes the first half
\* be evaluated before the second is entered.
RECURSIVE ExpandRange(_, _, _, _)
ExpandRange(acts, ops, lo, hi) ==
  IF lo > hi THEN acts
  ELSE IF lo = hi THEN ExpandOp(acts, ops[lo])
  ELSE LET mid  == (lo + hi) \div 2
           left == ExpandRange(acts, ops, lo, mid)
       IN  IF left.count > acts.count
             THEN ExpandRange(left, ops, mid + 1, hi)
             ELSE left

\* all operations of ops expanded into a fresh actions object, in order
ExpandOps(ops) == ExpandRange(NewActions, ops, 1, Len(ops))

(***************************************************************************)
(* The deduction techniques.  Each ...Ops operator is the sequence of      *)
(* operations the technique expands into its actions object.               *)
(***************************************************************************)
\* raw_indices: the cells in index order
raw_indices == [i \in 1 .. NumCells |-> i - 1]

\* the mutant of obvious_singletons that reads the lowest set bit
ObviousSingletonsFrontOps(s) ==
  LET Single(i) == singleton(s[i])
      hits == SelectSeq(raw_indices, Single)
  IN  [k \in 1 .. Len(hits) |-> PutOp(hits[k], Front(s[hits[k]]))]

\* obvious_singletons: every singleton cell, in index order, put to
\* cell.back()
ObviousSingletonsOps(s) ==
  LET Single(i) == singleton(s[i])
      hits == SelectSeq(raw_indices, Single)
  IN  [k \in 1 .. Len(hits) |-> PutOp(hits[k], Back(s[hits[k]]))]

\* hidden_singletons, one group: counts[bit] over the open cells of the group
HiddenCount(s, is, bit) ==
  Cardinality({pos \in Coords : ~fixed(s[is[pos]]) /\ bit >= 1 /\ Test(s[is[pos]], bit)})

\* digit_idx[bit]: the last open cell of the group that admits bit
HiddenDigitIdx(s, is, bit) ==
  is[SetMax({pos \in Coords : ~fixed(s[is[pos]]) /\ Test(s[is[pos]], bit)})]

\* the puts of one group: every bit in 1..9, from bit on, with counts[bit] = 1
RECURSIVE HiddenGroupOps(_, _, _)
HiddenGroupOps(s, is, bit) ==
  IF bit > 9 THEN << >>
  ELSE (IF HiddenCount(s, is, bit) = 1
          THEN << PutOp(HiddenDigitIdx(s, is, bit), bit) >>
          ELSE << >>)
       \o HiddenGroupOps(s, is, bit + 1)

\* hidden_singletons: the puts of the first group, in the order rows, squares,
\* columns, that has any
HiddenSingletonsOps(s) ==
  LET found == {g \in GroupIds : \E bit \in 1 .. 9 : HiddenCount(s, all_indices_sets[g], bit) = 1}
  IN  IF found = {} THEN << >>
      ELSE HiddenGroupOps(s, all_indices_sets[SetMin(found)], 1)

\* ascending_pairs: the generator's while loop
RECURSIVE AscendingPairLoop(_, _)
AscendingPairLoop(i, p) ==
  IF i >= p /\ p > 0 THEN AscendingPairLoop(i - p, p - 1)
  ELSE [left |-> 8 - p, right |-> i + 9 - p]

ascending_pairs == [i \in 0 .. 35 |-> AscendingPairLoop(i, 8)]

\* region(s, is)
region(s, is) == [i \in Coords |-> s[is[i]]]

\* the pairs of obvious_pairs that pass all three tests, by their index
MatchingPairs(cells) ==
  {k \in 0 .. 35 :
     /\ possibilities(cells[ascending_pairs[k].left]) = 2
     /\ possibilities(cells[ascending_pairs[k].right]) = 2
     /\ cells[ascending_pairs[k].left] = cells[ascending_pairs[k].right]}

\* the mutant of the inner loop of obvious_pairs that lacks the test
\* "common.bits == 0": it disables the pair in cells that hold neither digit
RECURSIVE PairDisablesNoCommonTest(_, _, _, _, _, _)
PairDisablesNoCommonTest(cells, is, left, right, pair_digits, i) ==
  IF i > 8 THEN << >>
  ELSE LET common == SetAnd(cells[i], pair_digits)
           skip   == \/ i = left
                     \/ i = right
                     \/ fixed(cells[i])
                     \/ common = pair_digits
       IN  (IF skip THEN << >>
            ELSE << DisableOp(is[i], SetMin(pair_digits)),
                    DisableOp(is[i], SetMax(pair_digits)) >>)
           \o PairDisablesNoCommonTest(cells, is, left, right, pair_digits,
                                       i + 1)

\* the disables of the inner loop of obvious_pairs, from position i on
RECURSIVE PairDisables(_, _, _, _, _, _)
PairDisables(cells, is, left, right, pair_digits, i) ==
  IF i > 8 THEN << >>
  ELSE LET common == SetAnd(cells[i], pair_digits)
           skip   == \/ i = left
                     \/ i = right
                     \/ fixed(cells[i])
                     \/ common = {}
                     \/ common = pair_digits
       IN  (IF skip THEN << >>
            ELSE << DisableOp(is[i], SetMin(pair_digits)),
                    DisableOp(is[i], SetMax(pair_digits)) >>)
           \o PairDisables(cells, is, left, right, pair_digits, i + 1)

\* obvious_pairs: the first group with a matching pair decides; its first
\* matching pair yields the disables and the technique returns
ObviousPairsOps(s) ==
  LET found == {g \in GroupIds : MatchingPairs(region(s, all_indices_sets[g])) # {}}
  IN  IF found = {} THEN << >>
      ELSE LET is    == all_indices_sets[SetMin(found)]
               cells == region(s, is)
               pr    == ascending_pairs[SetMin(MatchingPairs(cells))]
               pair_digits ==
                 SetAnd(SetAnd(cells[pr.left], cells[pr.right]),
                        Complement(cell_fixed_mask))
           IN  PairDisables(cells, is, pr.left, pr.right, pair_digits, 0)

obvious_singletons(s) == ExpandOps(ObviousSingletonsOps(s))

hidden_singletons(s) == ExpandOps(HiddenSingletonsOps(s))

obvious_pairs(s) == ExpandOps(ObviousPairsOps(s))

\* solved(map)
solved(s) == \A i \in RawIndices : fixed(s[i])

\* split_candidate: p from 2 to 8, cells in index order; NoCell for nullopt
NoCell == 255

\* the mutant of split_candidate that returns the last cell with the fewest
\* candidates instead of the first
SplitCandidateLast(s) ==
  LET hits == {p \in 2 .. 8 : \E idx \in RawIndices : possibilities(s[idx]) = p}
  IN  IF hits = {} THEN NoCell
      ELSE SetMax({idx \in RawIndices : possibilities(s[idx]) = SetMin(hits)})

split_candidate(s) ==
  LET hits == {p \in 2 .. 8 : \E idx \in RawIndices : possibilities(s[idx]) = p}
  IN  IF hits = {} THEN NoCell
      ELSE SetMin({idx \in RawIndices : possibilities(s[idx]) = SetMin(hits)})

(***************************************************************************)
(* The input lines of the checked family: the digits of four base lines,   *)
(* each with one of the cells 0..MaxMutPos overwritten by any digit 0..9,  *)
(* and the line of 81 zeros.                                               *)
(***************************************************************************)
\* a complete valid grid
GridComplete ==
  << 5, 3, 4, 6, 7, 8, 9, 1, 2,
     6, 7, 2, 1, 9, 5, 3, 4, 8,
     1, 9, 8, 3, 4, 2, 5, 6, 7,
     8, 5, 9, 7, 6, 1, 4, 2, 3,
     4, 2, 6, 8, 5, 3, 7, 9, 1,
     7, 1, 3, 9, 2, 4, 8, 5, 6,
     9, 6, 1, 5, 3, 7, 2, 8, 4,
     2, 8, 7, 4, 1, 9, 6, 3, 5,
     3, 4, 5, 2, 8, 6, 1, 7, 9 >>

\* a partial grid on which obvious_pairs finds eliminations
GridPairs ==
  << 0, 0, 0, 0, 7, 0, 0, 0, 0,
     0, 7, 0, 1, 9, 0, 3, 0, 8,
     1, 9, 8, 0, 0, 0, 0, 0, 0,
     0, 5, 0, 0, 0, 0, 4, 2, 3,
     4, 2, 6, 8, 0, 0, 0, 0, 0,
     0, 0, 3, 0, 0, 4, 8, 5, 0,
     9, 0, 0, 0, 0, 0, 0, 8, 4,
     0, 0, 7, 4, 0, 9, 0, 3, 0,
     3, 4, 5, 0, 0, 6, 1, 0, 0 >>

\* a partial grid that needs the search, with contradicting branches
GridSearch ==
  << 5, 0, 4, 0, 0, 0, 0, 0, 2,
     0, 7, 2, 1, 0, 5, 0, 0, 8,
     0, 0, 0, 3, 0, 0, 5, 0, 7,
     8, 5, 0, 7, 6, 0, 4, 0, 3,
     0, 0, 0, 8, 0, 0, 7, 0, 0,
     0, 1, 0, 0, 0, 0, 0, 5, 0,
     9, 0, 0, 0, 0, 0, 0, 8, 4,
     2, 0, 7, 0, 1, 9, 0, 3, 0,
     0, 0, 0, 0, 0, 0, 1, 7, 0 >>

BaseGrids == << GridComplete, GridPairs, GridSearch >>

\* the text of a line: one digit character per cell
LineOf(digits) == [i \in 1 .. NumCells |-> digits[i] + Char0]

\* digits with cell k (0-based) overwritten by d
Overwrite(digits, k, d) == [digits EXCEPT ![k + 1] = d]

ZeroLine == [i \in 1 .. NumCells |-> Char0]

\* the classic puzzle whose solution is GridComplete
GridClassic ==
  << 5, 3, 0, 0, 7, 0, 0, 0, 0,
     6, 0, 0, 1, 9, 5, 0, 0, 0,
     0, 9, 8, 0, 0, 0, 0, 6, 0,
     8, 0, 0, 0, 6, 0, 0, 0, 3,
     4, 0, 0, 8, 0, 3, 0, 0, 1,
     7, 0, 0, 0, 2, 0, 0, 0, 6,
     0, 6, 0, 0, 0, 0, 2, 8, 0,
     0, 0, 0, 4, 1, 9, 0, 0, 5,
     0, 0, 0, 0, 8, 0, 0, 7, 9 >>

ClassicLine == LineOf(GridClassic)

\* the same line without its last three characters: a line of 78 characters
ShortClassicLine == SubSeq(ClassicLine, 1, 78)

InputLines ==
  {LineOf(Overwrite(BaseGrids[b], k, d)) :
     b \in 1 .. Len(BaseGrids), k \in 0 .. MaxMutPos, d \in 0 .. 9}
  \cup {ZeroLine, ClassicLine, ShortClassicLine}

(***************************************************************************)
(* State                                                                   *)
(***************************************************************************)
VARIABLES
  line,       \* the input line read by getline
  stack,      \* std::stack<map>: a sequence, the top is the last entry
  pc,         \* position of main: "build", "propagate", "returned", "loop",
              \* "branch", "done", "err_digit", "err_propagate",
              \* "err_unsolvable", "err_split"
  caller,     \* the call of propagate in progress: "initial" or "branch"
  technique,  \* propagate's local
  ret,        \* the value propagate returned
  current,    \* the map popped by the search loop
  idx,        \* the branch cell
  bit,        \* the iterator of "for (auto d: cell)"
  out,        \* what dump() printed
  log         \* the actions object built last: who built it, the operations
              \* expanded into it, the object, and the map it was built for

vars == << line, stack, pc, caller, technique, ret, current, idx, bit, out, log >>

Top == stack[Len(stack)]

Pop(st) == SubSeq(st, 1, Len(st) - 1)

ReplaceTop(st, s) == [st EXCEPT ![Len(st)] = s]

NoLog == [by |-> "none", ops |-> << >>, acts |-> NewActions, before |-> InitialMap]

MakeLog(by, ops, s) ==
  [by |-> by, ops |-> ops, acts |-> ExpandOps(ops), before |-> s]

Init ==
  /\ line \in InputLines
  /\ stack = << >>
  /\ pc = "build"
  /\ caller = "initial"
  /\ technique = 0
  /\ ret = FALSE
  /\ current = InitialMap
  /\ idx = 0
  /\ bit = 0
  /\ out = << >>
  /\ log = NoLog

(***************************************************************************)
(* main: building the first map from the line                              *)
(***************************************************************************)
\* line[i]: the character at i; at i = line.size() the std::string gives
\* '\0'.  The loop of main reads i = 0, 1, ... and put throws at the first
\* character that is no digit, which is at line.size() at the latest, so no
\* index past line.size() is ever read.
CharAt(ln, i) == IF i < Len(ln) THEN ln[i + 1] ELSE 0

\* the first i in 0..80 at which put(i, line[i], acts) throws "invalid char
\* for digit" (digit::from -> digit::verify), NoCell if there is none
FirstInvalid(ln) ==
  LET bad == {i \in RawIndices : ~DigitValidChar(CharAt(ln, i))}
  IN  IF bad = {} THEN NoCell ELSE SetMin(bad)

\* put(i, line[i], acts) for i in 0..80: a put unless the character is '0'
BuildOps(ln) ==
  LET Given(i) == ln[i + 1] # Char0
      hits == SelectSeq(raw_indices, Given)
  IN  [k \in 1 .. Len(hits) |-> PutOp(hits[k], DigitFromChar(ln[hits[k] + 1]))]

\* stack.emplace(), the 81 puts, acts.apply(current), then propagate(current)
Build ==
  /\ pc = "build"
  /\ FirstInvalid(line) = NoCell
  /\ LET lg == MakeLog("build", BuildOps(line), InitialMap)
     IN  /\ log' = lg
         /\ stack' = Append(stack, Apply(lg.acts, InitialMap))
  /\ pc' = "propagate"
  /\ caller' = "initial"
  /\ technique' = 0
  /\ UNCHANGED << line, ret, current, idx, bit, out >>

\* one of the puts throws std::runtime_error("invalid char for digit"): the
\* run ends before anything is applied
BuildInvalidDigit ==
  /\ pc = "build"
  /\ FirstInvalid(line) # NoCell
  /\ idx' = FirstInvalid(line)
  /\ pc' = "err_digit"
  /\ UNCHANGED << line, stack, caller, technique, ret, current, bit, out, log >>

(***************************************************************************)
(* propagate: one iteration of its loop per step                           *)
(***************************************************************************)
TechniqueName(t) ==
  IF t = 0 THEN "obvious_singletons"
  ELSE IF t = 1 THEN "hidden_singletons"
  ELSE "obvious_pairs"

TechniqueOps(s, t) ==
  IF t = 0 THEN ObviousSingletonsOps(s)
  ELSE IF t = 1 THEN HiddenSingletonsOps(s)
  ELSE ObviousPairsOps(s)

\* the mutant of a case of the switch that lacks "++technique": an empty log
\* leaves technique as it is
CaseBodyNoAdvance(s, t) ==
  LET lg == MakeLog(TechniqueName(t), TechniqueOps(s, t), s)
  IN  [s         |-> IF lg.acts.count # 0 THEN Apply(lg.acts, s) ELSE s,
       technique |-> IF lg.acts.count # 0 THEN 0 ELSE t,
       log       |-> lg]

\* the mutant of a case of the switch that lacks "technique = 0": a non-empty
\* log is applied and the next technique follows
CaseBodyNoReset(s, t) ==
  LET lg == MakeLog(TechniqueName(t), TechniqueOps(s, t), s)
  IN  [s         |-> IF lg.acts.count # 0 THEN Apply(lg.acts, s) ELSE s,
       technique |-> t + 1,
       log       |-> lg]

\* the body of one case of propagate's switch: the technique is evaluated; a
\* non-empty log is applied and technique reset to 0, an empty one advances
\* technique
CaseBody(s, t) ==
  LET lg == MakeLog(TechniqueName(t), TechniqueOps(s, t), s)
  IN  [s         |-> IF lg.acts.count # 0 THEN Apply(lg.acts, s) ELSE s,
       technique |-> IF lg.acts.count # 0 THEN 0 ELSE t + 1,
       log       |-> lg]

\* one iteration of propagate's loop on a valid map: the switch.  Cases 0
\* and 1 end in break; case 2 has no break and falls into
\* "default: return true".
PropagateIteration(s, t) ==
  LET c == CaseBody(s, t)
  IN  [s |-> c.s, technique |-> c.technique, log |-> c.log,
       returned |-> t >= 2]

\* if (!valid(s)) return false
PropInvalid ==
  /\ pc = "propagate"
  /\ ~valid(Top)
  /\ pc' = "returned"
  /\ ret' = FALSE
  /\ UNCHANGED << line, stack, caller, technique, current, idx, bit, out, log >>

PropSwitch(t) ==
  /\ LET r == PropagateIteration(Top, t)
     IN  /\ stack' = ReplaceTop(stack, r.s)
         /\ technique' = r.technique
         /\ log' = r.log
         /\ pc' = IF r.returned THEN "returned" ELSE "propagate"
         /\ ret' = IF r.returned THEN TRUE ELSE ret
  /\ UNCHANGED << line, caller, current, idx, bit, out >>

\* case 0
PropObviousSingletons ==
  /\ pc = "propagate"
  /\ valid(Top)
  /\ technique = 0
  /\ PropSwitch(0)

\* case 1
PropHiddenSingletons ==
  /\ pc = "propagate"
  /\ valid(Top)
  /\ technique = 1
  /\ PropSwitch(1)

\* case 2 and default
PropObviousPairs ==
  /\ pc = "propagate"
  /\ valid(Top)
  /\ technique = 2
  /\ PropSwitch(2)

(***************************************************************************)
(* main: after the first propagate                                         *)
(***************************************************************************)
\* if (!propagate(current)) throw "cannot propagate sudoku"
InitialRejected ==
  /\ pc = "returned"
  /\ caller = "initial"
  /\ ~ret
  /\ pc' = "err_propagate"
  /\ UNCHANGED << line, stack, caller, technique, ret, current, idx, bit, out, log >>

InitialPropagated ==
  /\ pc = "returned"
  /\ caller = "initial"
  /\ ret
  /\ pc' = "loop"
  /\ UNCHANGED << line, stack, caller, technique, ret, current, idx, bit, out, log >>

(***************************************************************************)
(* main: the search loop                                                   *)
(***************************************************************************)
\* dump: the digit of every fixed cell, '0' for an open one
dump(s) ==
  [i \in 1 .. NumCells |->
     IF fixed(s[i - 1]) THEN ToChar(Back(s[i - 1])) ELSE Char0]

\* if (stack.empty()) throw "sudoku cannot be solved"
LoopEmpty ==
  /\ pc = "loop"
  /\ stack = << >>
  /\ pc' = "err_unsolvable"
  /\ UNCHANGED << line, stack, caller, technique, ret, current, idx, bit, out, log >>

\* pop; solved(current): dump and leave the loop
LoopSolved ==
  /\ pc = "loop"
  /\ stack # << >>
  /\ solved(Top)
  /\ current' = Top
  /\ stack' = Pop(stack)
  /\ out' = dump(Top)
  /\ pc' = "done"
  /\ UNCHANGED << line, caller, technique, ret, idx, bit, log >>

\* pop; not solved and split_candidate gives nullopt: "cannot split sudoku"
LoopNoSplit ==
  /\ pc = "loop"
  /\ stack # << >>
  /\ ~solved(Top)
  /\ split_candidate(Top) = NoCell
  /\ current' = Top
  /\ stack' = Pop(stack)
  /\ pc' = "err_split"
  /\ UNCHANGED << line, caller, technique, ret, idx, bit, out, log >>

\* pop; idx = *cand; cell = current[idx]; the for loop starts at cell.begin()
LoopSplit ==
  /\ pc = "loop"
  /\ stack # << >>
  /\ ~solved(Top)
  /\ split_candidate(Top) # NoCell
  /\ current' = Top
  /\ stack' = Pop(stack)
  /\ idx' = split_candidate(Top)
  /\ bit' = IterBegin(Top[split_candidate(Top)])
  /\ pc' = "branch"
  /\ UNCHANGED << line, caller, technique, ret, out, log >>

\* one round of the for loop: next = stack.emplace(current);
\* actions{}.on(idx).put(digit{d}).apply(next); propagate(next)
BranchTry ==
  /\ pc = "branch"
  /\ ~IterAtEnd(bit)
  /\ LET lg == MakeLog("branch", << PutOp(idx, bit) >>, current)
     IN  /\ log' = lg
         /\ stack' = Append(stack, Apply(lg.acts, current))
  /\ pc' = "propagate"
  /\ caller' = "branch"
  /\ technique' = 0
  /\ UNCHANGED << line, ret, current, idx, bit, out >>

\* the for loop is over: back to the top of the search loop
BranchEnd ==
  /\ pc = "branch"
  /\ IterAtEnd(bit)
  /\ pc' = "loop"
  /\ UNCHANGED << line, stack, caller, technique, ret, current, idx, bit, out, log >>

\* the mutant of the kept round of the for loop that lacks the increment of
\* the iterator
BranchKeptNoAdvance ==
  /\ pc = "returned"
  /\ caller = "branch"
  /\ ret
  /\ pc' = "branch"
  /\ UNCHANGED << line, stack, caller, technique, ret, current, idx, bit, out, log >>

\* propagate(next) returned true: next stays on the stack
BranchKept ==
  /\ pc = "returned"
  /\ caller = "branch"
  /\ ret
  /\ bit' = IterNext(current[idx], bit)
  /\ pc' = "branch"
  /\ UNCHANGED << line, stack, caller, technique, ret, current, idx, out, log >>

\* the mutant of the pruning step that leaves the rejected child on the stack
BranchPrunedKeeps ==
  /\ pc = "returned"
  /\ caller = "branch"
  /\ ~ret
  /\ bit' = IterNext(current[idx], bit)
  /\ pc' = "branch"
  /\ UNCHANGED << line, stack, caller, technique, ret, current, idx, out, log >>

\* propagate(next) returned false: stack.pop(); continue
BranchPruned ==
  /\ pc = "returned"
  /\ caller = "branch"
  /\ ~ret
  /\ stack' = Pop(stack)
  /\ bit' = IterNext(current[idx], bit)
  /\ pc' = "branch"
  /\ UNCHANGED << line, caller, technique, ret, current, idx, out, log >>

Next ==
  \/ Build
  \/ BuildInvalidDigit
  \/ PropInvalid
  \/ PropObviousSingletons
  \/ PropHiddenSingletons
  \/ PropObviousPairs
  \/ InitialRejected
  \/ InitialPropagated
  \/ LoopEmpty
  \/ LoopSolved
  \/ LoopNoSplit
  \/ LoopSplit
  \/ BranchTry
  \/ BranchEnd
  \/ BranchKept
  \/ BranchPruned

Spec == Init /\ [][Next]_vars

(***************************************************************************)
(* The techniques as functions of a map.  A second specification applies   *)
(* each of obvious_singletons, hidden_singletons and obvious_pairs to maps *)
(* of a family: stack holds the one map that is the technique's argument.  *)
(***************************************************************************)
\* the map main builds from a line: the puts of the line applied to a fresh
\* map
BuiltMap(ln) == Apply(ExpandOps(BuildOps(ln)), InitialMap)

\* map s with candidate d of the open cell j toggled; d = 0 and a committed
\* cell leave s as it is
ToggleCandidate(s, j, d) ==
  IF d = 0 THEN s
  ELSE IF fixed(s[j]) THEN s
  ELSE [s EXCEPT ![j] = IF d \in s[j] THEN s[j] \ {d} ELSE s[j] \cup {d}]

\* the arguments the techniques start from: the maps built from the base
\* grids with one of the first cells blanked, and those maps with one
\* candidate of one of the first cells toggled
TechniqueMaps ==
  {ToggleCandidate(BuiltMap(LineOf(Overwrite(BaseGrids[b], k, 0))), j, d) :
     b \in 1 .. Len(BaseGrids), k \in 0 .. MaxMutPos,
     j \in 0 .. MaxMutPos, d \in 0 .. 9}

InitTechnique ==
  /\ line = ZeroLine
  /\ stack \in {<< s >> : s \in TechniqueMaps}
  /\ pc = "technique"
  /\ caller = "initial"
  /\ technique = 0
  /\ ret = FALSE
  /\ current = InitialMap
  /\ idx = 0
  /\ bit = 0
  /\ out = << >>
  /\ log = NoLog

\* actions acts = <technique t>(s); acts.apply(s)
ApplyTechnique(t) ==
  /\ pc = "technique"
  /\ LET lg == MakeLog(TechniqueName(t), TechniqueOps(Top, t), Top)
     IN  /\ log' = lg
         /\ stack' = << Apply(lg.acts, Top) >>
  /\ technique' = t
  /\ pc' = "applied"
  /\ UNCHANGED << line, caller, ret, current, idx, bit, out >>

TechObviousSingletons == ApplyTechnique(0)

TechHiddenSingletons == ApplyTechnique(1)

TechObviousPairs == ApplyTechnique(2)

\* the map a technique left is the next argument, in the order propagate
\* takes: the map is valid, the log is not empty, and no technique before
\* this one had anything to do on the argument
TechFeed ==
  /\ pc = "applied"
  /\ log.acts.count # 0
  /\ valid(Top)
  /\ \A t \in 0 .. (technique - 1) : Len(TechniqueOps(log.before, t)) = 0
  /\ pc' = "technique"
  /\ technique' = 0
  /\ log' = NoLog
  /\ UNCHANGED << line, stack, caller, ret, current, idx, bit, out >>

NextTechnique ==
  \/ TechObviousSingletons
  \/ TechHiddenSingletons
  \/ TechObviousPairs
  \/ TechFeed

SpecTechnique == InitTechnique /\ [][NextTechnique]_vars

(***************************************************************************)
(* propagate as a function of a map.  A third specification runs propagate *)
(* on the maps of the family, one iteration of its loop per step.          *)
(***************************************************************************)
InitPropagate ==
  /\ line = ZeroLine
  /\ stack \in {<< s >> : s \in TechniqueMaps}
  /\ pc = "propagate"
  /\ caller = "initial"
  /\ technique = 0
  /\ ret = FALSE
  /\ current = InitialMap
  /\ idx = 0
  /\ bit = 0
  /\ out = << >>
  /\ log = NoLog

NextPropagate ==
  \/ PropInvalid
  \/ PropObviousSingletons
  \/ PropHiddenSingletons
  \/ PropObviousPairs

SpecPropagate == InitPropagate /\ [][NextPropagate]_vars

(***************************************************************************)
(* split_candidate as a function of a map.  A fourth specification runs    *)
(* the top of the search loop once on the maps built from the lines of the *)
(* family, each with a set of digits added to the candidates of its open   *)
(* cells, so that the fewest candidates of a map range from two upwards.   *)
(***************************************************************************)
MaxWiden == 3

\* map s with the digits of ds added to the candidates of every open cell
Widen(s, ds) == [i \in RawIndices |-> IF fixed(s[i]) THEN s[i] ELSE s[i] \cup ds]

SplitMaps ==
  {Widen(BuiltMap(ln), ds) :
     ln \in {l \in InputLines : FirstInvalid(l) = NoCell},
     ds \in SUBSET (1 .. MaxWiden)}

InitSplit ==
  /\ line = ZeroLine
  /\ stack \in {<< s >> : s \in SplitMaps}
  /\ pc = "loop"
  /\ caller = "initial"
  /\ technique = 0
  /\ ret = TRUE
  /\ current = InitialMap
  /\ idx = 0
  /\ bit = 0
  /\ out = << >>
  /\ log = NoLog

NextSplit == LoopSplit \/ LoopNoSplit

SpecSplit == InitSplit /\ [][NextSplit]_vars

(***************************************************************************)
(* Vocabulary of the properties, stated without the solver's own operators *)
(***************************************************************************)
Digits == 1 .. 9

\* the candidate digits of a cell, and whether it is committed to digit d
Candidates(cell) == cell \cap Digits

CommittedTo(cell, d) == cell = {d} /\ d \in Digits

\* two different cells that share a row, a column or a 3x3 box
SameRow(a, b) == a \div 9 = b \div 9

SameColumn(a, b) == a % 9 = b % 9

SameBox(a, b) ==
  /\ (a \div 9) \div 3 = (b \div 9) \div 3
  /\ (a % 9) \div 3 = (b % 9) \div 3

ArePeers(a, b) == a # b /\ (SameRow(a, b) \/ SameColumn(a, b) \/ SameBox(a, b))

\* every cell has a candidate digit left
EveryCellHasCandidate(s) == \A i \in RawIndices : Candidates(s[i]) # {}

\* a complete valid grid: 81 digits in 1..9, no digit twice among peers
IsValidGrid(g) ==
  /\ \A i \in RawIndices : g[i + 1] \in Digits
  /\ \A a, b \in RawIndices : ArePeers(a, b) => g[a + 1] # g[b + 1]

\* grid g picks every cell's digit from the cell's candidates
PicksFrom(g, s) == \A i \in RawIndices : g[i + 1] \in s[i]

\* grid g agrees with the non-zero givens of a line of 81 characters
AgreesWithLine(g, ln) ==
  /\ Len(ln) = NumCells
  /\ \A i \in RawIndices : ln[i + 1] # Char0 => ln[i + 1] = g[i + 1] + Char0

\* a complete valid grid that solves some line of the family
GridOther1 ==
  << 5, 3, 4, 7, 6, 8, 9, 1, 2,
     6, 7, 2, 1, 9, 5, 3, 4, 8,
     1, 9, 8, 3, 4, 2, 5, 6, 7,
     8, 5, 9, 6, 7, 1, 4, 2, 3,
     4, 2, 6, 8, 5, 3, 7, 9, 1,
     7, 1, 3, 9, 2, 4, 8, 5, 6,
     9, 6, 1, 5, 3, 7, 2, 8, 4,
     2, 8, 7, 4, 1, 9, 6, 3, 5,
     3, 4, 5, 2, 8, 6, 1, 7, 9 >>

\* a complete valid grid that solves some line of the family
GridOther2 ==
  << 5, 4, 3, 6, 8, 7, 9, 1, 2,
     6, 7, 2, 1, 9, 5, 3, 4, 8,
     1, 9, 8, 3, 4, 2, 5, 6, 7,
     8, 5, 9, 7, 6, 1, 4, 2, 3,
     3, 2, 6, 8, 5, 4, 7, 9, 1,
     7, 1, 4, 9, 2, 3, 8, 5, 6,
     9, 3, 1, 5, 7, 6, 2, 8, 4,
     2, 8, 7, 4, 1, 9, 6, 3, 5,
     4, 6, 5, 2, 3, 8, 1, 7, 9 >>

\* a complete valid grid that solves some line of the family
GridOther3 ==
  << 5, 4, 6, 9, 7, 8, 3, 1, 2,
     3, 7, 2, 1, 4, 5, 9, 6, 8,
     1, 9, 8, 3, 2, 6, 5, 4, 7,
     8, 5, 9, 7, 6, 1, 4, 2, 3,
     6, 2, 4, 8, 5, 3, 7, 9, 1,
     7, 1, 3, 2, 9, 4, 8, 5, 6,
     9, 6, 1, 5, 3, 7, 2, 8, 4,
     2, 8, 7, 4, 1, 9, 6, 3, 5,
     4, 3, 5, 6, 8, 2, 1, 7, 9 >>

\* a complete valid grid that solves some line of the family
GridOther4 ==
  << 6, 3, 2, 5, 7, 8, 9, 4, 1,
     5, 7, 4, 1, 9, 2, 3, 6, 8,
     1, 9, 8, 6, 4, 3, 5, 7, 2,
     8, 5, 9, 7, 6, 1, 4, 2, 3,
     4, 2, 6, 8, 3, 5, 7, 1, 9,
     7, 1, 3, 9, 2, 4, 8, 5, 6,
     9, 6, 1, 3, 5, 7, 2, 8, 4,
     2, 8, 7, 4, 1, 9, 6, 3, 5,
     3, 4, 5, 2, 8, 6, 1, 9, 7 >>

\* the complete grids the soundness properties are checked against
KnownGrids ==
  {g \in {GridComplete, GridOther1, GridOther2, GridOther3, GridOther4} :
     IsValidGrid(g)}

Terminated ==
  pc \in {"done", "err_digit", "err_propagate", "err_unsolvable", "err_split"}

\* the map the logged actions object leaves when applied to the map it was
\* built for
LogAfter == MapAnd(log.before, log.acts.actions_map)

LogIsTechnique ==
  log.by \in {"obvious_singletons", "hidden_singletons", "obvious_pairs"}

PutIndices == {k \in 1 .. Len(log.ops) : log.ops[k].kind = "put"}

(***************************************************************************)
(* C1  Whenever a solution is emitted, every cell of it is a digit 1..9    *)
(* the popped map is committed to, no digit occurs twice in a row, column  *)
(* or box, and every non-zero given of the line stands unchanged.          *)
(***************************************************************************)
C1_EmittedIsSolution ==
  pc = "done" =>
    /\ Len(out) = NumCells
    /\ \A i \in RawIndices :
         /\ out[i + 1] \in (Char0 + 1) .. (Char0 + 9)
         /\ CommittedTo(current[i], out[i + 1] - Char0)
         /\ line[i + 1] # Char0 => out[i + 1] = line[i + 1]
    /\ \A a, b \in RawIndices : ArePeers(a, b) => out[a + 1] # out[b + 1]

\* a solution found by the search for a line with givens and blanks
C1_Witness ==
  /\ pc = "done"
  /\ caller = "branch"
  /\ \E i, j \in RawIndices : line[i + 1] # Char0 /\ line[j + 1] = Char0

(***************************************************************************)
(* C2  Whenever propagate returns true, the map it leaves is converged:    *)
(* each of the three techniques yields a log with count 0 on it.           *)
(***************************************************************************)
C2_ReturnsConverged ==
  (pc = "returned" /\ ret) =>
    /\ obvious_singletons(Top).count = 0
    /\ hidden_singletons(Top).count = 0
    /\ obvious_pairs(Top).count = 0

(***************************************************************************)
(* C3  In propagate, a step in which a technique produced at least one     *)
(* action and applied it is followed by a new iteration at technique 0:    *)
(* propagate does not return in that step.                                 *)
(***************************************************************************)
C3_ReentersAtZero ==
  [][(pc = "propagate" /\ EveryCellHasCandidate(Top) /\ log'.acts.count > 0)
       => (pc' = "propagate" /\ technique' = 0)]_vars

(***************************************************************************)
(* C4  propagate returns true only with a map in which every cell has a    *)
(* candidate digit left (also when the last log applied came from          *)
(* obvious_pairs), and returns false only with a map in which some cell    *)
(* has none.                                                               *)
(***************************************************************************)
C4_ReturnTellsValidity ==
  pc = "returned" => (ret <=> EveryCellHasCandidate(Top))

\* propagate returned true right after it applied a log of obvious_pairs
C4_Witness ==
  /\ pc = "returned"
  /\ ret
  /\ log.by = "obvious_pairs"
  /\ log.acts.count > 0
  /\ Top = LogAfter

(***************************************************************************)
(* C5  The search never ends in "cannot split sudoku": split_candidate     *)
(* gives no cell only for a map that is solved or has a cell without       *)
(* candidates.                                                             *)
(***************************************************************************)
C5_SplitFailsOnlySolvedOrInvalid ==
  pc = "err_split" =>
    \/ \A i \in RawIndices : 0 \notin current[i]
    \/ ~EveryCellHasCandidate(current)

(***************************************************************************)
(* C6  A line whose givens agree with a complete valid grid ends with an   *)
(* emitted solution: it ends neither in "sudoku cannot be solved" nor in   *)
(* any other error.                                                        *)
(***************************************************************************)
C6_SolvableEndsInSolution ==
  (Terminated /\ \E g \in KnownGrids : AgreesWithLine(g, line)) => pc = "done"

\* no digit a cell is committed to is a candidate of a peer of the cell,
\* and a committed cell holds one digit
Consistent(s) ==
  \A i \in RawIndices :
    0 \notin s[i] =>
      /\ Cardinality(Candidates(s[i])) = 1
      /\ \A p \in RawIndices :
           ArePeers(p, i) => Candidates(s[p]) \cap s[i] = {}

\* a technique's log built for a map in which every cell has a candidate
TechniqueOnValid == LogIsTechnique /\ EveryCellHasCandidate(log.before)

C8_EveryPutCommits ==
  \A k \in PutIndices :
    /\ CommittedTo(LogAfter[log.ops[k].idx], log.ops[k].dig)
    /\ \A p \in RawIndices :
         ArePeers(p, log.ops[k].idx) => log.ops[k].dig \notin Candidates(LogAfter[p])

\* put k of the log meets no other put: none on the same cell, none of the
\* same digit on a peer
Unconflicted(k) ==
  \A j \in PutIndices \ {k} :
    /\ log.ops[j].idx # log.ops[k].idx
    /\ ArePeers(log.ops[j].idx, log.ops[k].idx) => log.ops[j].dig # log.ops[k].dig

(***************************************************************************)
(* C8  (amended) After a log of puts is applied, every put(cell, d) in it  *)
(* with d in 1..9, d a candidate of cell before, and no other put of the   *)
(* log on cell or of d on a peer of cell, leaves cell committed to d and   *)
(* no peer of cell with d as a candidate.                                  *)
(***************************************************************************)
C8_UnconflictedPutCommits ==
  \A k \in PutIndices :
    (/\ log.ops[k].dig \in Candidates(log.before[log.ops[k].idx])
     /\ Unconflicted(k))
    => /\ CommittedTo(LogAfter[log.ops[k].idx], log.ops[k].dig)
       /\ \A p \in RawIndices :
            ArePeers(p, log.ops[k].idx)
              => log.ops[k].dig \notin Candidates(LogAfter[p])

\* a log of several puts, all of them unconflicted, applied to a map in
\* which some peer of a put cell still had the digit
C8_Witness ==
  /\ Cardinality(PutIndices) >= 2
  /\ \A k \in PutIndices :
       /\ log.ops[k].dig \in Candidates(log.before[log.ops[k].idx])
       /\ Unconflicted(k)
  /\ \E k \in PutIndices : \E p \in RawIndices :
       /\ ArePeers(p, log.ops[k].idx)
       /\ log.ops[k].dig \in Candidates(log.before[p])

\* the entries of the constraint array of a cell
ConstraintEntries(cons) == {cons[k] : k \in 1 .. Len(cons)}

(***************************************************************************)
(* C9  (as claimed) The array put iterates for a cell has exactly 20       *)
(* entries and does not hold the cell itself.                              *)
(***************************************************************************)
C9_TwentyPeersWithoutSelf ==
  \A i \in RawIndices :
    LET cons == constraints_per_raw_index[i]
    IN  /\ Len(cons) = 20
        /\ i \notin ConstraintEntries(cons)

(***************************************************************************)
(* C9  (amended) The array put iterates for a cell has exactly 21 entries, *)
(* in ascending order: the cell itself and the 20 other cells of its row,  *)
(* column and box.                                                         *)
(***************************************************************************)
C9_TwentyOneEntriesWithSelf ==
  \A i \in RawIndices :
    LET cons  == constraints_per_raw_index[i]
        peers == {p \in RawIndices : ArePeers(p, i)}
    IN  /\ Len(cons) = 21
        /\ \A k \in 1 .. 20 : cons[k] < cons[k + 1]
        /\ ConstraintEntries(cons) = {i} \cup peers
        /\ Cardinality(peers) = 20

\* a put was expanded: its own cell's bit was disabled and then overwritten
\* by the fix, its peers' masks lost the digit
C9_Witness ==
  /\ log.by = "branch"
  /\ log.ops[1].dig \in Digits
  /\ log.acts.count = 22
  /\ log.acts.actions_map[log.ops[1].idx] = {log.ops[1].dig}

\* two cells of one row of a line of 81 characters carry the same non-zero
\* digit
RowDuplicate(ln) ==
  /\ Len(ln) = NumCells
  /\ \E a, b \in RawIndices :
       a # b /\ SameRow(a, b) /\ ln[a + 1] # Char0 /\ ln[a + 1] = ln[b + 1]

(***************************************************************************)
(* C10  A line with the same non-zero digit twice in one row never gets    *)
(* past the first propagate: the map built from it has a cell without      *)
(* candidates, propagate returns false, and the run ends in "cannot        *)
(* propagate sudoku" with the search loop never entered.                   *)
(***************************************************************************)
C10_RowDuplicateRejected ==
  RowDuplicate(line) =>
    /\ pc \in {"build", "propagate", "returned", "err_propagate"}
    /\ caller = "initial"
    /\ pc = "propagate" => ~EveryCellHasCandidate(Top)
    /\ pc = "returned" => ~ret
    /\ current = InitialMap

\* such a line was rejected
C10_Witness ==
  /\ RowDuplicate(line)
  /\ pc = "err_propagate"
  /\ Len(stack) = 1


\* the number of set bits of a map, over all 81 cells
BitCount(s) ==
  Cardinality({p \in RawIndices \X Bits : p[2] \in s[p[1]]})

\* what bounds the iterations propagate has left: the set bits of its map,
\* and within one map the techniques not yet evaluated on it
Variant == (3 * BitCount(Top)) + (2 - technique)

(***************************************************************************)
(* C11  propagate terminates: every iteration that applies a log leaves    *)
(* strictly fewer set bits on the map, and every iteration that does not   *)
(* return lowers the variant (set bits, then techniques left), which never *)
(* goes below 0; an iteration is always possible until the return, since   *)
(* technique stays within the cases of the switch.                         *)
(***************************************************************************)
C11_PropagateTerminates ==
  /\ [][(pc = "propagate" /\ EveryCellHasCandidate(Top) /\ log'.acts.count > 0)
          => BitCount(Top') < BitCount(Top)]_vars
  /\ [][(pc = "propagate" /\ pc' = "propagate")
          => (Variant' < Variant /\ Variant' >= 0)]_vars
  /\ [](pc = "propagate" => technique \in 0 .. 2)

\* propagate returned after it applied a log that took bits off the map
C11_Witness ==
  /\ pc = "returned"
  /\ ret
  /\ LogIsTechnique
  /\ log.acts.count > 0
  /\ BitCount(Top) < BitCount(log.before)

(***************************************************************************)
(* C12: the example line                                                   *)
(***************************************************************************)
\* the run never chose a branch cell and never pushed a board
NoBranching == caller = "initial" /\ Len(stack) <= 1

\* C12 as stated: for the example line as the spec prints it, 78 characters
\* long, the build from the givens and one propagate call yield the solved
\* board 5346...179, and the search loop never chooses a branch cell or pushes
\* a board.
C12_PrintedLineSolvedByPropagation ==
  line = ShortClassicLine =>
    /\ NoBranching
    /\ pc \in {"build", "propagate", "returned", "loop", "done"}
    /\ (pc \in {"returned", "loop"} =>
          /\ ret /\ solved(Top)
          /\ \A i \in RawIndices : Top[i] = SetFrom(GridComplete[i + 1]))
    /\ (pc = "done" => out = LineOf(GridComplete))

\* C12 amended: for the 81-character line of that puzzle (the printed line
\* followed by 079), the build from the givens and one propagate call yield the
\* solved board 5346...179, which is printed, and the search loop never chooses
\* a branch cell or pushes a board.
C12_ClassicSolvedByPropagation ==
  line = ClassicLine =>
    /\ NoBranching
    /\ pc \in {"build", "propagate", "returned", "loop", "done"}
    /\ (pc \in {"returned", "loop"} =>
          /\ ret /\ solved(Top)
          /\ \A i \in RawIndices : Top[i] = SetFrom(GridComplete[i + 1]))
    /\ (pc = "done" => out = LineOf(GridComplete))

C12_Witness ==
  /\ line = ClassicLine /\ pc = "done" /\ NoBranching
  /\ out = LineOf(GridComplete)

(***************************************************************************)
(* C13: apply is idempotent                                                *)
(***************************************************************************)
\* the boards at hand in a state: the board the log was computed on, the
\* popped board, the untouched board, and every board on the stack
BoardsAtHand ==
  {log.before, current, InitialMap} \cup {stack[k] : k \in 1 .. Len(stack)}

\* C13: applying an action log twice leaves the same board as applying it
\* once, for the log of the state and every board at hand.
C13_ApplyIdempotent ==
  \A b \in BoardsAtHand :
    Apply(log.acts, Apply(log.acts, b)) = Apply(log.acts, b)

\* a log with operations that changes two boards at hand, one of them not the
\* board it was computed on
C13_Witness ==
  /\ log.acts.count > 0
  /\ Apply(log.acts, log.before) # log.before
  /\ \E b \in BoardsAtHand \ {log.before} : Apply(log.acts, b) # b

(***************************************************************************)
(* C14: contradictions found while branching are pruned                    *)
(***************************************************************************)
StackValid(st) == \A k \in 1 .. Len(st) : valid(st[k]) = TRUE

\* C14: a contradiction produced while trying a branch candidate never aborts
\* the run and never stays on the stack.  Between iterations of the search
\* loop every board on the stack is valid; when propagate rejects the child of
\* a branch, the child alone is removed and the for loop goes on with the next
\* candidate of the branch cell, the boards below untouched.
C14_BranchContradictionPruned ==
  /\ [](pc = "loop" => StackValid(stack))
  /\ [][(pc = "returned" /\ caller = "branch" /\ ~ret)
          => /\ pc' = "branch"
             /\ stack' = Pop(stack)
             /\ StackValid(stack')
             /\ bit' = IterNext(current[idx], bit)
             /\ current' = current /\ idx' = idx]_vars
  /\ [][(pc = "branch" /\ ~ret /\ caller = "branch")
          => pc' \in {"propagate", "loop"}]_vars

\* the child for a digit was rejected and removed, and a candidate of the
\* branch cell is still to be tried
C14_Witness ==
  /\ pc = "branch" /\ caller = "branch" /\ ~ret
  /\ \E d \in Digits : d < bit /\ Test(current[idx], d)
  /\ ~IterAtEnd(bit)
  /\ StackValid(stack)

(***************************************************************************)
(* C15, C16: obvious pairs                                                 *)
(***************************************************************************)
\* the groups of s that hold a matching pair
PairGroups(s) ==
  {g \in GroupIds : MatchingPairs(region(s, all_indices_sets[g])) # {}}

\* the group obvious_pairs stops at, its first matching pair and the two digits
FirstPairGroup(s) == all_indices_sets[SetMin(PairGroups(s))]

FirstPair(s) ==
  ascending_pairs[SetMin(MatchingPairs(region(s, FirstPairGroup(s))))]

FirstPairDigits(s) ==
  Candidates(s[FirstPairGroup(s)[FirstPair(s).left]])

\* the other cells of the group of the first pair that are open in after and
\* still hold one of the two digits
PairLeftovers(before, after) ==
  {i \in Coords :
     /\ i # FirstPair(before).left
     /\ i # FirstPair(before).right
     /\ ~fixed(after[FirstPairGroup(before)[i]])
     /\ Candidates(after[FirstPairGroup(before)[i]])
          \cap FirstPairDigits(before) # {}}

\* C15: when obvious_pairs fires on a group for two open cells with the same
\* two candidates a and b, then after its log is applied no other open cell of
\* that group retains a or b.
C15_PairDigitsLeaveGroup ==
  (log.by = "obvious_pairs" /\ log.acts.count > 0)
    => PairLeftovers(log.before, LogAfter) = {}

\* the matching pairs <<g, k>> of s for which some other open cell of the
\* group holds exactly one of the two digits: the eliminations the inner loop
\* of obvious_pairs does make
HalfEliminablePairs(s) ==
  {p \in GroupIds \X (0 .. 35) :
     LET is    == all_indices_sets[p[1]]
         cells == region(s, is)
         pr    == ascending_pairs[p[2]]
     IN  /\ p[2] \in MatchingPairs(cells)
         /\ \E i \in Coords \ {pr.left, pr.right} :
              /\ ~fixed(cells[i])
              /\ Cardinality(Candidates(cells[i])
                               \cap Candidates(cells[pr.left])) = 1}

\* C16: obvious_pairs stops at the first group and pair that yields an
\* elimination, so it returns an empty log only if no group holds a matching
\* pair whose digits can be eliminated from some other open cell of the group.
C16_EmptyLogMeansNoElimination ==
  (log.by = "obvious_pairs" /\ log.acts.count = 0)
    => HalfEliminablePairs(log.before) = {}

(***************************************************************************)
(* C17: the digits tried on the branch cell                                *)
(***************************************************************************)
\* C17: every child of a popped unsolved board is made by one put on a clone
\* of that board, of a remaining candidate digit of the branch cell, taken in
\* ascending order; put is never called with the value 0 as the digit.
C17_BranchPutsCandidateDigits ==
  /\ [](log.by = "branch" =>
          /\ log.before = current
          /\ log.ops = << PutOp(idx, bit) >>
          /\ bit \in Candidates(current[idx]))
  /\ [][(pc = "returned" /\ caller = "branch" /\ pc' = "branch")
          => (bit' > bit /\ \A d \in Candidates(current[idx]) :
                              ~(bit < d /\ d < bit'))]_vars

(***************************************************************************)
(* C18: the branch cell                                                    *)
(***************************************************************************)
NumCandidates(cell) == Cardinality(Candidates(cell))

\* cell c of board b is open, no open cell with two or more candidates has
\* fewer candidates, and no open cell with as many candidates has a lower index
IsMinimalSplit(b, c) ==
  /\ ~fixed(b[c])
  /\ \A j \in RawIndices :
       (~fixed(b[j]) /\ NumCandidates(b[j]) >= 2)
         => NumCandidates(b[j]) >= NumCandidates(b[c])
  /\ \A j \in RawIndices :
       (~fixed(b[j]) /\ NumCandidates(b[j]) = NumCandidates(b[c])) => j >= c

\* C18: whenever split_candidate returns a cell, the cell is open, has the
\* fewest candidates among the open cells with at least two, and has the lowest
\* index among the open cells with that many candidates.  Checked for every
\* board at hand, and for the branch cell the search loop holds.
C18_SplitIsMinimal ==
  /\ \A b \in BoardsAtHand :
       split_candidate(b) # NoCell => IsMinimalSplit(b, split_candidate(b))
  /\ pc = "branch" => IsMinimalSplit(current, idx)

\* a branch cell with three or more candidates, an open cell with as many
\* behind it and an open cell with more before it
C18_Witness ==
  /\ pc = "branch"
  /\ NumCandidates(current[idx]) >= 3
  /\ \E j \in RawIndices :
       j > idx /\ ~fixed(current[j])
               /\ NumCandidates(current[j]) = NumCandidates(current[idx])
  /\ \E j \in RawIndices :
       j < idx /\ ~fixed(current[j])
               /\ NumCandidates(current[j]) > NumCandidates(current[idx])

(***************************************************************************)
(* C19: the order of the techniques in propagate                           *)
(***************************************************************************)
\* C19: in every run of propagate, hidden_singletons is evaluated only on a
\* board on which obvious_singletons has just produced no action, and
\* obvious_pairs only on a board on which obvious_singletons and then
\* hidden_singletons have just produced no action.
C19_CheapTechniquesExhaustedFirst ==
  /\ [](log.by = "hidden_singletons"
          => Len(ObviousSingletonsOps(log.before)) = 0)
  /\ [](log.by = "obvious_pairs"
          => /\ Len(ObviousSingletonsOps(log.before)) = 0
             /\ Len(HiddenSingletonsOps(log.before)) = 0)
  /\ [][(pc = "propagate" /\ log' # log /\ log'.by = "hidden_singletons")
          => /\ log.by = "obvious_singletons"
             /\ log.acts.count = 0
             /\ log.before = log'.before]_vars
  /\ [][(pc = "propagate" /\ log' # log /\ log'.by = "obvious_pairs")
          => /\ log.by = "hidden_singletons"
             /\ log.acts.count = 0
             /\ log.before = log'.before]_vars

\* obvious_pairs was evaluated, and found something, on a board that neither
\* of the two cheaper techniques acts on
C19_Witness ==
  /\ log.by = "obvious_pairs" /\ log.acts.count > 0
  /\ Len(ObviousSingletonsOps(log.before)) = 0
  /\ Len(HiddenSingletonsOps(log.before)) = 0

(***************************************************************************)
(* C20: the log as a meet of masks                                         *)
(***************************************************************************)
\* the mask one operation stands for at cell c: a put commits its cell and
\* removes the digit from the peers of the cell, a disable removes the digit
\* from its cell, and every other cell is left alone
OpMask(op, c) ==
  IF op.kind = "put"
    THEN IF c = op.idx THEN {op.dig}
         ELSE IF ArePeers(c, op.idx) THEN Bits \ {op.dig}
         ELSE Bits
    ELSE IF c = op.idx THEN Bits \ {op.dig} ELSE Bits

\* the intersection of the masks of all operations of ops at cell c
MeetOfOps(ops, c) ==
  {b \in Bits : \A k \in 1 .. Len(ops) : b \in OpMask(ops[k], c)}

\* C20: the log composes by meet.  The pending mask of every cell is the
\* intersection of the masks of the operations accumulated into the log, so
\* it does not depend on their order, and a cell fixed to two different digits
\* in one log is left without a candidate by apply.
C20_LogIsMeetOfOps ==
  /\ \A c \in RawIndices : log.acts.actions_map[c] = MeetOfOps(log.ops, c)
  /\ \A j, k \in PutIndices :
       (log.ops[j].idx = log.ops[k].idx /\ log.ops[j].dig # log.ops[k].dig)
         => Candidates(LogAfter[log.ops[j].idx]) = {}

(***************************************************************************)
(* C21: the frame of a single put                                          *)
(***************************************************************************)
SinglePutLog == Len(log.ops) = 1 /\ log.ops[1].kind = "put"

\* C21: applying a log that holds a single put(cell, d) leaves every cell
\* that is neither cell nor a peer of it unchanged, and takes from each peer
\* at most the bit d, the open marker and every other candidate staying.
C21_SinglePutFrame ==
  SinglePutLog =>
    \A i \in RawIndices :
      /\ (i # log.ops[1].idx /\ ~ArePeers(i, log.ops[1].idx))
           => LogAfter[i] = log.before[i]
      /\ ArePeers(i, log.ops[1].idx)
           => /\ LogAfter[i] \subseteq log.before[i]
              /\ (log.before[i] \ {log.ops[1].dig}) \subseteq LogAfter[i]
              /\ (0 \in log.before[i] => 0 \in LogAfter[i])

(***************************************************************************)
(* C22: peer consistency of the boards of the search                       *)
(***************************************************************************)
\* C22 as stated: every board on the search stack, at any time, and every
\* popped board is peer consistent.
C22_EveryStackBoardConsistent ==
  /\ \A k \in 1 .. Len(stack) : Consistent(stack[k])
  /\ Consistent(current)

\* the search is between two calls of propagate: at the top of the search
\* loop, between two rounds of the for loop, or at its end
AtRest == pc \in {"loop", "branch", "done", "err_split", "err_unsolvable"}

\* C22 amended: every board that propagate has accepted is peer consistent.
\* So is every board on the stack while the search is between two calls of
\* propagate, and every board popped from it.
C22_AcceptedBoardsConsistent ==
  /\ (pc = "returned" /\ ret) => Consistent(Top)
  /\ AtRest => /\ \A k \in 1 .. Len(stack) : Consistent(stack[k])
               /\ Consistent(current)

\* two children kept on the stack, the upper one with committed and open
\* cells, and a popped board
C22_Witness ==
  /\ pc = "loop" /\ caller = "branch"
  /\ Len(stack) >= 2
  /\ \E i, j \in RawIndices : fixed(Top[i]) /\ ~fixed(Top[j])
  /\ \E i \in RawIndices : ~fixed(current[i])

(***************************************************************************)
(* C23: a reported deduction changes the board                             *)
(***************************************************************************)
\* C23: whenever a technique evaluated inside propagate returns a log with
\* count > 0, applying the log clears at least one bit of the board and sets
\* none.  propagate evaluates a technique in every iteration that starts on a
\* board in which every cell has a candidate.
C23_DeductionClearsBits ==
  [][(pc = "propagate" /\ pc' \in {"propagate", "returned"}
        /\ EveryCellHasCandidate(Top) /\ log'.acts.count > 0)
       => /\ log'.by \in {"obvious_singletons", "hidden_singletons",
                          "obvious_pairs"}
          /\ log'.before = Top
          /\ Top' = MapAnd(Top, log'.acts.actions_map)
          /\ \A i \in RawIndices : Top'[i] \subseteq Top[i]
          /\ \E i \in RawIndices : Top'[i] # Top[i]]_vars

\* hidden_singletons reported a deduction and its log has been applied
C23_Witness ==
  /\ pc = "propagate" /\ technique = 0
  /\ log.by = "hidden_singletons" /\ log.acts.count > 0
  /\ Top = LogAfter
  /\ \A i \in RawIndices : Top[i] \subseteq log.before[i]
  /\ \E i \in RawIndices : Top[i] # log.before[i]

(***************************************************************************)
(* C24: the solve of one line terminates                                   *)
(***************************************************************************)
\* the number of open cells of a board
OpenCells(s) == Cardinality({i \in RawIndices : 0 \in s[i]})

\* board a has no bit that board b lacks
SubBoard(a, b) == \A i \in RawIndices : a[i] \subseteq b[i]

\* the for loop of the search loop is running on the popped board
InLoop ==
  \/ pc = "branch"
  \/ pc \in {"propagate", "returned"} /\ caller = "branch"

\* how many boards at the bottom of the stack were there before the popped
\* board: every child of the popped board is a SubBoard of it, and no board
\* pushed earlier is, as it has another digit in the branch cell of an ancestor
Base == Cardinality({k \in 1 .. Len(stack) : ~SubBoard(stack[k], current)})

\* the rank of board k of the stack: its open cells, then what is left to do
\* on it: the iterations propagate has left, the return, or nothing
StackRank(k) ==
  << OpenCells(stack[k]),
     IF k = Len(stack) /\ pc = "propagate" THEN 32 + Variant
     ELSE IF k = Len(stack) /\ pc = "returned" THEN 31
     ELSE 30 >>

\* the rank of the popped board while its for loop runs: its open cells, then
\* the candidates the iterator has not passed, counted twice, plus one while
\* the next round has not started
CurrentRank ==
  << OpenCells(current),
     (2 * Cardinality({b \in current[idx] : b >= bit}))
       + (IF pc = "branch" THEN 1 ELSE 0) >>

\* the work left in a state, as a sequence of ranks: whether the board is
\* still to be built, the boards below the popped one, the popped one while
\* its for loop runs, and the boards above it
WorkLeft ==
  << << (IF pc = "build" THEN 1 ELSE 0), 0 >> >>
  \o (IF InLoop
        THEN [k \in 1 .. Base |-> StackRank(k)]
             \o << CurrentRank >>
             \o [k \in 1 .. (Len(stack) - Base) |-> StackRank(Base + k)]
        ELSE [k \in 1 .. Len(stack) |-> StackRank(k)])

RankLess(x, y) == x[1] < y[1] \/ (x[1] = y[1] /\ x[2] < y[2])

\* the lexicographic order on sequences of ranks, a proper prefix being less
WorkLess(a, b) ==
  \E k \in 1 .. Len(b) :
    /\ \A j \in 1 .. (k - 1) : j <= Len(a) /\ a[j] = b[j]
    /\ IF k > Len(a) THEN Len(a) = k - 1 ELSE RankLess(a[k], b[k])

WellFormed(ln) ==
  /\ Len(ln) = NumCells
  /\ \A i \in 1 .. NumCells : ln[i] \in Char0 .. (Char0 + 9)

\* C24: the solve of a well-formed line terminates in an emitted solution or
\* one of the three fatal errors, because every pushed child has strictly
\* fewer open cells than the board it was cloned from.  Stated as: every step
\* lessens the work left in a well-founded order (so no run goes on for ever),
\* every child has fewer open cells than its parent when it is pushed and
\* never more later, no state other than the four ends is without a next
\* step, and a well-formed line never ends in the digit error.
C24_SolveTerminates ==
  /\ [][WorkLess(WorkLeft', WorkLeft)
          \/ (WorkLeft' = WorkLeft /\ pc = "loop" /\ Terminated')]_vars
  /\ [][(pc = "branch" /\ pc' = "propagate")
          => OpenCells(Top') < OpenCells(current)]_vars
  /\ [][(pc = "propagate" /\ pc' \in {"propagate", "returned"})
          => OpenCells(Top') <= OpenCells(Top)]_vars
  /\ [](pc = "propagate" => (Len(stack) >= 1 /\ technique \in 0 .. 2))
  /\ [](pc = "returned" =>
          (caller \in {"initial", "branch"} /\ (~ret => Len(stack) >= 1)))
  /\ [](pc \in {"build", "propagate", "returned", "loop", "branch"}
          \/ Terminated)
  /\ [](WellFormed(line) =>
          pc \in {"build", "propagate", "returned", "loop", "branch",
                  "done", "err_propagate", "err_unsolvable", "err_split"})

\* the search of a well-formed line has ended, after branching, with boards
\* still on the stack
C24_Witness ==
  /\ WellFormed(line)
  /\ pc = "done" /\ caller = "branch"
  /\ Len(stack) >= 1

====
